---- MODULE Spec2Model ----
(***************************************************************************)
(* Model of apply_patch.py: the idempotent "ensure prefix" patcher.        *)
(*                                                                         *)
(* Text is a sequence of characters.  Three characters are enough to show  *)
(* every branch of the code: "a" (any non-whitespace character), "LF"      *)
(* (line feed) and "CR" (carriage return).  Both LF and CR are whitespace  *)
(* for str.strip(), and both take part in the newline translation that     *)
(* Path.read_text and Path.write_text perform in text mode.                *)
(*                                                                         *)
(* Two specifications share the model of apply_patch:                      *)
(*   Spec       the program: main() iterating over PATCHES;                *)
(*   ApplySpec  the function apply_patch(path, body) called twice in       *)
(*              succession with arguments drawn from bounded sets.         *)
(***************************************************************************)
EXTENDS Integers, Sequences, FiniteSets, TLC

\* Bounds of the model: longest file content and longest patch body.
MaxFileLen == 2
MaxBodyLen == 3

Chars == {"a", "LF", "CR"}

\* Characters str.strip() removes (LF and CR are both whitespace).
Whitespace == {"LF", "CR"}

\* All sequences over S of length at most n.
SeqsUpTo(S, n) == UNION {[1..k -> S] : k \in 0..n}

\* What a path can be on disk besides a decodable file.
\*   Missing      stat fails with ENOENT: Path.exists() is False
\*   Unreachable  stat fails with an errno Path.exists() does not swallow
\*                (EACCES on a parent directory, ENAMETOOLONG, ...)
\*   Undecodable  a file whose bytes are not valid UTF-8
Missing == [kind |-> "missing", data |-> <<>>]
Unreachable == [kind |-> "unreachable", data |-> <<>>]
Undecodable == [kind |-> "undecodable", data |-> <<>>]

\* A file holding the characters c, all of them valid UTF-8.
File(c) == [kind |-> "text", data |-> c]

IsText(f) == f.kind = "text"

\* The patch table, main's only input.  Both bodies of the source are
\* multi-line blocks with no surrounding whitespace and no carriage return.
PATCHES ==
    << [path |-> "p1", body |-> <<"a", "LF", "a">>],
       [path |-> "p2", body |-> <<"a", "LF", "a">>] >>

TableKeys == {PATCHES[k].path : k \in 1..Len(PATCHES)}

\* Every path of the model's filesystem: the table's keys, one other file
\* and one path outside the table at which there is no file.
Paths == TableKeys \cup {"other", "absent"}

Platforms == {"posix", "nt"}

---------------------------------------------------------------------------
(* Library functions the code calls, modelled by what they do.             *)

RECURSIVE lstrip(_)
lstrip(s) ==
    IF s # <<>> /\ Head(s) \in Whitespace THEN lstrip(Tail(s)) ELSE s

RECURSIVE rstrip(_)
rstrip(s) ==
    IF s # <<>> /\ s[Len(s)] \in Whitespace
    THEN rstrip(SubSeq(s, 1, Len(s) - 1))
    ELSE s

\* str.strip(): leading and trailing whitespace removed.
strip(s) == rstrip(lstrip(s))

\* str.startswith(prefix)
startswith(s, prefix) ==
    /\ Len(prefix) <= Len(s)
    /\ SubSeq(s, 1, Len(prefix)) = prefix

\* Path.read_text(): text mode with newline=None, so CR LF and a lone CR
\* are both read as LF.
RECURSIVE read_text(_)
read_text(b) ==
    IF b = <<>> THEN <<>>
    ELSE IF Head(b) = "CR"
         THEN <<"LF">> \o read_text(IF Len(b) >= 2 /\ b[2] = "LF"
                                    THEN SubSeq(b, 3, Len(b))
                                    ELSE Tail(b))
         ELSE <<Head(b)>> \o read_text(Tail(b))

\* Path.write_text(): text mode with newline=None, so every LF is written
\* as os.linesep: LF on posix, CR LF on nt.
RECURSIVE write_text(_, _)
write_text(t, os) ==
    IF t = <<>> THEN <<>>
    ELSE IF Head(t) = "LF" /\ os = "nt"
         THEN <<"CR", "LF">> \o write_text(Tail(t), os)
         ELSE <<Head(t)>> \o write_text(Tail(t), os)

---------------------------------------------------------------------------
VARIABLES
    platform,          \* os.name of the interpreter running the script
    fs,                \* the filesystem: path -> raw content (or Missing, ...)
    pc,                \* apply_patch: where the call is
    file_path,         \* apply_patch: argument file_path_str / local file_path
    patch_content,     \* apply_patch: argument patch_content
    original_content,  \* apply_patch: local original_content
    new_content,       \* apply_patch: local new_content
    ret,               \* apply_patch: the value it returns
    mpc,               \* the caller: where it is
    idx,               \* main: position of the loop in PATCHES
    success_count,     \* main: local success_count
    summary,           \* main: the K/N of the printed summary line, if printed
    exit_code,         \* the process exit status, once exited
    before,            \* history: the filesystem when the call began
    touched,           \* history: the file operations the call has attempted
    ioerr,             \* history: an OSError was raised by a read or a write
    hist               \* history: one record per finished call

locals == <<file_path, patch_content, original_content, new_content, ret>>
mainvars == <<mpc, idx, success_count, summary, exit_code>>
ghost == <<before, touched, ioerr, hist>>
vars == <<platform, fs, pc, locals, mainvars, ghost>>

None == "<none>"

\* exit_code while the process runs.
NotExited == "running"

\* len(PATCHES), main's total_count.
total_count == Len(PATCHES)

FileStates ==
    {Missing, Unreachable, Undecodable}
        \cup {File(c) : c \in SeqsUpTo(Chars, MaxFileLen)}

---------------------------------------------------------------------------
(* apply_patch                                                             *)

\* The call itself: arguments bound, nothing done yet.
Call(path, body) ==
    /\ pc = "idle"
    /\ pc' = "exists"
    /\ file_path' = path
    /\ patch_content' = body
    /\ original_content' = <<>>
    /\ new_content' = <<>>
    /\ ret' = None
    /\ before' = fs
    /\ touched' = {}
    /\ ioerr' = FALSE
    /\ UNCHANGED <<platform, fs>>

\* except Exception as e: print(...); return False
Except ==
    /\ pc' = "return"
    /\ ret' = "False"

\* Exists without the check: the call goes on to read whatever is there.
ExistsUnchecked ==
    /\ pc = "exists"
    /\ pc' = "read"
    /\ UNCHANGED <<platform, fs, locals, mainvars, ghost>>

\* if not file_path.exists(): ... return False
\* The check stands before the try block.  Path.exists() swallows ENOENT and
\* re-raises any other OSError up to Python 3.13; from 3.14 on it returns
\* False for every OSError.  The script does not pin the interpreter.
Exists ==
    /\ pc = "exists"
    /\ \/ /\ fs[file_path] = Unreachable
          /\ pc' = "raise"
          /\ ret' = "raised"
       \/ /\ fs[file_path] \in {Missing, Unreachable}
          /\ pc' = "return"
          /\ ret' = "False"
       \/ /\ fs[file_path] \notin {Missing, Unreachable}
          /\ pc' = "read"
          /\ ret' = ret
    /\ UNCHANGED <<platform, fs, file_path, patch_content, original_content,
                   new_content, mainvars, ghost>>

\* original_content = file_path.read_text(encoding="utf-8")
Read ==
    /\ pc = "read"
    /\ touched' = touched \cup {"read"}
    /\ \/ /\ IsText(fs[file_path])
          /\ original_content' = read_text(fs[file_path].data)
          /\ pc' = "compare"
          /\ UNCHANGED <<ret, ioerr>>
       \/ /\ ~IsText(fs[file_path])        \* FileNotFoundError, UnicodeDecodeError, ...
          /\ Except
          /\ UNCHANGED <<original_content, ioerr>>
       \/ /\ Except                        \* the read itself fails (EIO, EACCES)
          /\ ioerr' = TRUE
          /\ UNCHANGED original_content
    /\ UNCHANGED <<platform, fs, file_path, patch_content, new_content,
                   mainvars, before, hist>>

\* NewContent with the patch put after the file's text instead of before it.
NewContentAppended(normalized_patch, original) ==
    original \o <<"LF", "LF">> \o normalized_patch

\* new_content = normalized_patch + "\n\n" + original_content
NewContent(normalized_patch, original) ==
    normalized_patch \o <<"LF", "LF">> \o original

\* normalized_patch = patch_content.strip()
\* if original_content.startswith(normalized_patch): return True
\* new_content = ...
Compare ==
    /\ pc = "compare"
    /\ LET normalized_patch == strip(patch_content) IN
       \/ /\ startswith(original_content, normalized_patch)
          /\ pc' = "return"
          /\ ret' = "True"
          /\ UNCHANGED new_content
       \/ /\ ~startswith(original_content, normalized_patch)
          /\ new_content' = NewContent(normalized_patch, original_content)
          /\ pc' = "open"
          /\ UNCHANGED ret
    /\ UNCHANGED <<platform, fs, file_path, patch_content, original_content,
                   mainvars, ghost>>

\* WriteTarget stuck at the table's first key, whatever entry is handled.
WriteTargetFirstKey == PATCHES[1].path

\* The path file_path.write_text(...) opens.
WriteTarget == file_path

\* file_path.write_text(new_content, ...), first half: open(mode="w")
\* creates the file if need be and truncates it.
Open ==
    /\ pc = "open"
    /\ touched' = touched \cup {"write"}
    /\ \/ /\ fs[WriteTarget] # Unreachable
          /\ fs' = [fs EXCEPT ![WriteTarget] = File(<<>>)]
          /\ pc' = "write"
          /\ UNCHANGED <<ret, ioerr>>
       \/ /\ Except                        \* the open fails (EACCES, EROFS)
          /\ ioerr' = TRUE
          /\ UNCHANGED fs
    /\ UNCHANGED <<platform, file_path, patch_content, original_content,
                   new_content, mainvars, before, hist>>

\* file_path.write_text(new_content, ...), second half: the data is
\* written and the file closed; then return True.  A failing write (ENOSPC,
\* EIO) leaves a proper prefix of the data behind.
Write ==
    /\ pc = "write"
    /\ LET data == write_text(new_content, platform) IN
       \/ /\ fs' = [fs EXCEPT ![WriteTarget] = File(data)]
          /\ pc' = "return"
          /\ ret' = "True"
          /\ UNCHANGED ioerr
       \/ /\ \E k \in 0..(Len(data) - 1) :
                fs' = [fs EXCEPT ![WriteTarget] = File(SubSeq(data, 1, k))]
          /\ Except
          /\ ioerr' = TRUE
    /\ UNCHANGED <<platform, file_path, patch_content, original_content,
                   new_content, mainvars, before, touched, hist>>

\* One step inside apply_patch.
apply_patch == Exists \/ Read \/ Compare \/ Open \/ Write

\* The record of the call that has just ended.
Finished ==
    [path |-> file_path, body |-> patch_content, before |-> before,
     after |-> fs, ret |-> ret, touched |-> touched,
     ioerr |-> ioerr]

---------------------------------------------------------------------------
(* main                                                                    *)

\* for path, content in PATCHES.items(): apply_patch(path, content)
MainCall ==
    /\ mpc = "loop"
    /\ idx <= Len(PATCHES)
    /\ Call(PATCHES[idx].path, PATCHES[idx].body)
    /\ UNCHANGED <<mainvars, hist>>

\* if apply_patch(path, content): success_count += 1
MainReturn ==
    /\ mpc = "loop"
    /\ pc = "return"
    /\ success_count' = IF ret = "True" THEN success_count + 1 ELSE success_count
    /\ idx' = idx + 1
    /\ pc' = "idle"
    /\ hist' = Append(hist, Finished)
    /\ UNCHANGED <<platform, fs, locals, mpc, summary, exit_code,
                   before, touched, ioerr>>

\* print(f"... {success_count}/{total_count} files ...")
\* if success_count != total_count: sys.exit(1)
MainSummary ==
    /\ mpc = "loop"
    /\ pc = "idle"
    /\ idx > Len(PATCHES)
    /\ summary' = <<success_count, total_count>>
    /\ exit_code' = IF success_count # total_count THEN "1" ELSE "0"
    /\ mpc' = "exited"
    /\ UNCHANGED <<platform, fs, pc, locals, idx, success_count, ghost>>

\* An exception leaving apply_patch is caught nowhere: the interpreter
\* prints the traceback and exits with status 1.
MainUncaught ==
    /\ mpc = "loop"
    /\ pc = "raise"
    /\ mpc' = "exited"
    /\ exit_code' = "1"
    /\ hist' = Append(hist, Finished)
    /\ UNCHANGED <<platform, fs, pc, locals, idx, success_count, summary,
                   before, touched, ioerr>>

InitCommon ==
    /\ platform \in Platforms
    /\ pc = "idle"
    /\ original_content = <<>>
    /\ new_content = <<>>
    /\ ret = None
    /\ idx = 1
    /\ success_count = 0
    /\ summary = <<>>
    /\ exit_code = NotExited
    /\ touched = {}
    /\ ioerr = FALSE
    /\ hist = <<>>

\* Files an earlier run of the script has left: they begin with the body.
AlreadyPatched(body) ==
    {File(body \o rest) : rest \in {<<>>, <<"LF", "LF">>, <<"LF", "LF", "a">>}}

\* The files outside the patch table.
Bystanders == ("other" :> File(<<"a">>)) @@ ("absent" :> Missing)

\* The state when main() starts: any content in the table's files.
Init ==
    /\ InitCommon
    /\ mpc = "loop"
    /\ \E f \in [TableKeys -> FileStates \cup UNION {AlreadyPatched(PATCHES[k].body)
                                                      : k \in 1..Len(PATCHES)}] :
          fs = f @@ Bystanders
    /\ before = fs
    /\ file_path = None
    /\ patch_content = <<>>

Next == MainCall \/ MainReturn \/ MainSummary \/ MainUncaught \/ apply_patch

Spec == Init /\ [][Next]_vars

---------------------------------------------------------------------------
(* apply_patch(path, body) called twice in succession                      *)

Calls == {1, 2}

\* apply_patch(path, body), with the same arguments each time.
DriverCall ==
    /\ mpc = "driver"
    /\ Len(hist) < Cardinality(Calls)
    /\ Call(file_path, patch_content)
    /\ UNCHANGED <<mainvars, hist>>

\* The call returns, or raises, to its caller.
DriverReturn ==
    /\ mpc = "driver"
    /\ pc \in {"return", "raise"}
    /\ pc' = "idle"
    /\ hist' = Append(hist, Finished)
    /\ UNCHANGED <<platform, fs, locals, mainvars, before, touched, ioerr>>

\* Any file, any patch body.
ApplyInit ==
    /\ InitCommon
    /\ mpc = "driver"
    /\ file_path = "p1"
    /\ patch_content \in SeqsUpTo(Chars, MaxBodyLen)
    /\ \E f \in FileStates :
          fs = ("p1" :> f) @@ ("p2" :> Missing) @@ Bystanders
    /\ before = fs

ApplyNext == DriverCall \/ DriverReturn \/ apply_patch

ApplySpec == ApplyInit /\ [][ApplyNext]_vars

---------------------------------------------------------------------------
(* Properties                                                              *)

\* str.endswith(suffix)
endswith(s, suffix) ==
    /\ Len(suffix) <= Len(s)
    /\ SubSeq(s, Len(s) - Len(suffix) + 1, Len(s)) = suffix

\* The target of the k-th finished call, before and after it.
Before(k) == hist[k].before[hist[k].path]
After(k) == hist[k].after[hist[k].path]

\* The k-th finished call went through write_text.
Wrote(k) == "write" \in hist[k].touched

\* A file's text, as the script itself would read it back.
Text(f) == read_text(f.data)

\* C1: idempotence.  When apply_patch(path, body) has returned True on an
\* existing, readable file and is called again with the same arguments (no
\* I/O error occurring in either call), the second call returns True,
\* does not write, and leaves the file as the first call left it.
C1_SecondCallIsNoOp ==
    ( /\ Len(hist) = 2
      /\ IsText(Before(1))
      /\ hist[1].ret = "True"
      /\ ~hist[1].ioerr
      /\ ~hist[2].ioerr )
    => /\ hist[2].ret = "True"
       /\ ~Wrote(2)
       /\ After(2) = After(1)

\* C2: content preservation.  Whenever a call that took the write path
\* returns True, the file holds strip(body), two line feeds and then exactly
\* the characters it held before the call.
C2_FileIsPatchThenOriginal ==
    \A k \in 1..Len(hist) :
        (hist[k].ret = "True" /\ Wrote(k))
        => After(k) = File(strip(hist[k].body) \o <<"LF", "LF">> \o Before(k).data)

\* C3: prefix invariant.  Whenever a call returns True, on either branch,
\* the file's text starts with strip(body).
C3_StartsWithPatch ==
    \A k \in 1..Len(hist) :
        hist[k].ret = "True"
        => /\ IsText(After(k))
           /\ startswith(Text(After(k)), strip(hist[k].body))

\* C4: missing file.  A call on a path at which there is no file attempts
\* no read and no write, changes nothing in the filesystem (so the file is
\* not created), and returns False.
C4_MissingFileUntouched ==
    /\ (pc # "idle" /\ before[file_path] = Missing)
       => /\ pc \in {"exists", "return"}
          /\ touched = {}
          /\ fs = before
          /\ pc = "return" => ret = "False"
    /\ \A k \in 1..Len(hist) :
          Before(k) = Missing
          => /\ hist[k].ret = "False"
             /\ hist[k].touched = {}
             /\ hist[k].after = hist[k].before

\* C4's case: a call on a missing path has returned.
C4_Witness ==
    \E k \in 1..Len(hist) : Before(k) = Missing /\ hist[k].ret = "False"

\* The number of calls that returned True.
Succeeded == Cardinality({k \in 1..Len(hist) : hist[k].ret = "True"})

\* C5: aggregate exit code.  When the process has exited, with K of the N
\* entries' calls having returned True, the summary K/N has been printed
\* and the exit status is 0 if K = N and 1 otherwise.
C5_SummaryAndExitCode ==
    mpc = "exited"
    => /\ summary = <<Succeeded, total_count>>
       /\ exit_code = IF Succeeded = total_count THEN "0" ELSE "1"

\* C6: failure containment.  No exception leaves apply_patch: every call
\* ends by returning True or False.
C6_NoExceptionEscapes ==
    /\ pc # "raise"
    /\ \A k \in 1..Len(hist) : hist[k].ret \in {"True", "False"}

\* C7: prepend-only mutation.  At every moment of a call on a readable
\* file, and after it, the characters the file held when the call began are
\* still there, in order, as the end of the file.
C7_OriginalStaysAsTail ==
    (pc # "idle" /\ IsText(before[file_path]))
    => /\ IsText(fs[file_path])
       /\ endswith(fs[file_path].data, before[file_path].data)

\* C8: filesystem frame.  A step changes at most the file at the path of
\* the call in progress, which is a key of the patch table; it changes it
\* while writing only, and creates no file.
C8_OnlyTheTargetChanges ==
    [][\A p \in Paths :
          fs'[p] # fs[p]
          => /\ p = file_path
             /\ p \in TableKeys
             /\ pc \in {"open", "write"}
             /\ fs[p] # Missing
             /\ IsText(fs'[p])]_vars

\* C8's case: a run has rewritten a file of the table.
C8_Witness ==
    \E k \in 1..Len(hist) : After(k) # Before(k) /\ hist[k].ret = "True"

\* C9: run ordering.  When the process has exited, apply_patch has been
\* invoked once for every entry of the table, in the table's order.
C9_EveryEntryInOrder ==
    mpc = "exited"
    => [k \in 1..Len(hist) |-> hist[k].path]
         = [k \in 1..Len(PATCHES) |-> PATCHES[k].path]

\* C10: exit status 0 certifies the end state.  When the process has exited
\* with status 0, every file of the table exists and its text starts with
\* its entry's strip(body); and when a file of the table was missing as its
\* entry was handled, the exit status is 1.
C10_ExitZeroCertifies ==
    /\ (mpc = "exited" /\ exit_code = "0")
       => \A k \in 1..Len(PATCHES) :
             /\ IsText(fs[PATCHES[k].path])
             /\ startswith(Text(fs[PATCHES[k].path]), strip(PATCHES[k].body))
    /\ (mpc = "exited" /\ \E k \in 1..Len(hist) : Before(k) = Missing)
       => exit_code = "1"

\* C10's case: a run that wrote one file and found another already patched
\* has exited with status 0.
C10_Witness ==
    /\ mpc = "exited"
    /\ exit_code = "0"
    /\ \E j, k \in 1..Len(hist) : Wrote(j) /\ ~Wrote(k)

====
